---- MODULE Spec2Model ----
(***************************************************************************)
(* State-machine model of QueueProcessor (src/processor.py): the job queue, *)
(* the worker loop(s), the semaphore, start()/stop(), and the per-job       *)
(* pipeline process() with its stages, upload and cleanup.                  *)
(*                                                                          *)
(* Scheduling: asyncio is cooperative, so every action below is the code    *)
(* between two suspension points (await) of one task.                       *)
(***************************************************************************)
EXTENDS Integers, Sequences, FiniteSets, TLC

\* ------------------------------------------------------------------ bounds
MaxJobs == 3          \* enqueue() calls explored
MaxStarts == 2        \* start() calls explored by PoolSpec (one worker each)
MaxConcurrent == 2    \* PoolSpec draws max_concurrent from 1..MaxConcurrent
MaxCleanups == 2      \* direct _cleanup_files calls in a row (CleanSpec)

\* ------------------------------------------------------- program constants
\* Sizes are in units of 1 GiB: max_file_size_gb = 2.0 (processor.py:36, :47).
max_file_size_bytes == 2
\* max_concurrent when the caller gives none (processor.py:35), as bot.py does.
DefaultConcurrent == 1
\* bot.py calls processor.start() once (bot.py:114).
BotStarts == 1
\* Ceiling of the bot-token upload backend (send_document), below the
\* configured maximum; the code holds no such number (processor.py:104, :329).
CappedCeiling == 1
\* run_ffmpeg keeps the last 1000 characters of the tool's stderr
\* (processor.py:167); diagnostic text is counted in units of 500 characters.
DiagTail == 2

Workers == 1..MaxStarts

\* Sizes a file can have (0 = empty, max + 1 = above the maximum).
Sizes == 0..(max_file_size_bytes + 1)
\* Sizes that pass _check_file_size.
OkSizes == {s \in Sizes : 0 < s /\ s <= max_file_size_bytes}
\* Free space measured by _get_free_space: below, at and above 1.5 x maximum.
FreeSpaces == {2, 3, 4}

\* A URL is a sequence of tokens: a scheme followed by path pieces.
ValidUrl == <<"http", ".M3U8">>
TestUrls == { << >>, <<"ftp", ".m3u8">>, <<"https", ".mp4">>, ValidUrl }

\* str.lower() on a token.
Lower(t) == IF t = ".M3U8" THEN ".m3u8" ELSE t

\* str.startswith("http"): the text begins with the letters h-t-t-p.
StartsWithHttp(u) == Len(u) > 0 /\ u[1] \in {"http", "https"}

\* ".m3u8" in url.lower()
ContainsM3u8(u) == \E i \in 1..Len(u) : Lower(u[i]) = ".m3u8"

\* Mutant of UrlValid: the ".m3u8" test is forgotten.
UrlValidNoMarker(u) == u # << >> /\ StartsWithHttp(u)

\* process(): the URL validation at line 222.
UrlValid(u) == u # << >> /\ StartsWithHttp(u) /\ ContainsM3u8(u)

\* Mutant of InsufficientSpace: free space of exactly 1.5 x maximum is
\* rejected as well.
InsufficientSpaceInclusive(free) == 2 * free <= 3 * max_file_size_bytes

\* process(): the disk-space test at line 227, free < max * 1.5.
InsufficientSpace(free) == 2 * free < 3 * max_file_size_bytes

\* The four derived paths of one run (process(), lines 236-241).
Kinds == {"tmp", "water", "final", "txt"}

\* ------------------------------------------------------------ environment
\* What a failing tool wrote to stderr: shorter and longer than the tail kept.
Stderrs == { <<"403">>, <<"a", "b", "403">> }

\* The inputs and outcomes of external calls a specification explores.
StageOutcomes ==
    {[kind |-> k, size |-> 0, stderr |-> << >>] : k \in {"editfail", "missing"}}
    \cup {[kind |-> "exitfail", size |-> 0, stderr |-> e] : e \in Stderrs}
    \cup {[kind |-> "partial", size |-> 1, stderr |-> e] : e \in Stderrs}
    \cup {[kind |-> "file", size |-> s, stderr |-> << >>] : s \in Sizes}

\* The sidecar text file cannot be written (watermark stage only).
WriteFail == [kind |-> "writefail", size |-> 0, stderr |-> << >>]

\* Everything: the program as bot.py runs it (one start() call, default pool).
FullEnv ==
    [ starts    |-> BotStarts,
      pools     |-> {DefaultConcurrent},
      creds     |-> BOOLEAN,
      urls      |-> TestUrls,
      frees     |-> FreeSpaces,
      stage     |-> StageOutcomes,
      sidecar   |-> {WriteFail},
      thumbs    |-> BOOLEAN,
      sizes     |-> OkSizes,
      transport |-> BOOLEAN,
      disk      |-> {{}} ]

\* Several start() calls and pool sizes, no session credentials; every run
\* either succeeds or fails at a stage (a non-zero exit) or at the upload.
PoolEnv ==
    [ starts    |-> MaxStarts,
      pools     |-> 1..MaxConcurrent,
      creds     |-> {FALSE},
      urls      |-> {ValidUrl},
      frees     |-> {4},
      stage     |-> {[kind |-> "exitfail", size |-> 0, stderr |-> <<"403">>],
                     [kind |-> "file", size |-> 1, stderr |-> << >>]},
      sidecar   |-> {},
      thumbs    |-> {FALSE},
      sizes     |-> {1},
      transport |-> {TRUE},
      disk      |-> {{}} ]

\* A pool with one slot fewer than workers, every stage succeeding and
\* transport calls (status edits, the failure message) that can fail.
SlotEnv ==
    [ PoolEnv EXCEPT !.pools = {MaxStarts - 1},
                     !.stage = {[kind |-> "file", size |-> 1, stderr |-> << >>]},
                     !.transport = BOOLEAN ]

\* The output directory holds any of the files of one job at the start.
CleanEnv == [ FullEnv EXCEPT !.disk = SUBSET {<<1, k>> : k \in Kinds} ]

\* Mutant of SingleEnv: start() is called several times.
SingleEnvManyStarts == PoolEnv

\* start() called once, as bot.py does, on pools of every size.
SingleEnv == [ PoolEnv EXCEPT !.starts = BotStarts ]

VARIABLES
    max_concurrent,   \* constructor argument
    creds,            \* session_string, api_id and api_hash all given
    q,                \* asyncio.Queue: pending job descriptors, FIFO
    unfinished,       \* the queue's count of items not yet task_done()
    semValue,         \* asyncio.Semaphore: free slots
    semWaiters,       \* asyncio.Semaphore: workers waiting, FIFO
    shutdown,         \* self._shutdown
    telethon_client,  \* "none" | "ok" | "unconnected" | "disconnected"
    starts,           \* start() calls made so far
    launched,         \* worker tasks created by start()
    wpc,              \* each worker's position
    run,              \* each worker's Pipeline Run: meta and process() locals
    stopPc,           \* stop(): "idle" | "joining" | "returned"
    jobs,             \* per accepted job: where it is, how often it was run
    fs,               \* output directory: the paths that exist
    startOrder,       \* job ids in the order their runs started
    startLog,         \* how the backend set-up of each start() call went
    cleaned           \* direct calls of _cleanup_files: paths, count, results

vars == << max_concurrent, creds, q, unfinished, semValue, semWaiters, shutdown,
           telethon_client, starts, launched, wpc, run, stopPc, jobs, fs,
           startOrder, startLog, cleaned >>

\* ------------------------------------------------------------- file system
Exists(f, p) == p \in f

\* A subprocess or open() creates (or replaces) path p.
WriteFile(f, p) == f \cup {p}

\* Path.unlink on each path of P.
Unlink(f, P) == f \ P

\* Path.rename(src, dst): dst takes src's place, src is gone.
Rename(f, src, dst) == (f \ {src}) \cup {dst}

PathsOf(j) == {<<j, k>> : k \in Kinds}

\* Mutant of CheckFileSize: an empty file passes.
CheckFileSizeSkipsEmpty(exists, size) ==
    IF ~exists THEN "integrity"
    ELSE IF size > max_file_size_bytes THEN "toolarge"
    ELSE "ok"

\* _check_file_size (lines 204-213) on the file a stage left: a missing file
\* makes stat() raise, a size above the maximum is tested before the empty
\* file; every failure is raised again as "Size check failed".
CheckFileSize(exists, size) ==
    IF ~exists THEN "integrity"
    ELSE IF size > max_file_size_bytes THEN "toolarge"
    ELSE IF size = 0 THEN "integrity"
    ELSE "ok"

\* Mutant of CleanupFiles: the call returns after its first deletion.
CleanupFilesFirstOnly(f, P) ==
    IF P \cap f = {} THEN f ELSE f \ {CHOOSE p \in P \cap f : TRUE}

\* _cleanup_files (lines 173-181): every path that exists is unlinked.
CleanupFiles(f, P) == Unlink(f, {p \in P : Exists(f, p)})

\* Path.unlink (line 178) raises when the path does not exist.
UnlinkRaises(f, p) == ~Exists(f, p)

\* _cleanup_files: the paths whose deletion raised inside the try (line 176).
CleanupFailures(f, P) == {p \in P : Exists(f, p) /\ UnlinkRaises(f, p)}

\* The except clause at line 180 catches every exception of the loop body.
Caught(errs) == errs

\* _cleanup_files: the exceptions that leave the call.
CleanupRaised(f, P) == CleanupFailures(f, P) \ Caught(CleanupFailures(f, P))

\* ------------------------------------------------------------------- jobs
NoMeta == [id |-> 0, url |-> << >>]

\* A worker's Pipeline Run: the descriptor it holds and what process() did.
NoRun ==
    [ meta         |-> NoMeta,
      free         |-> 0,         \* free_space measured (line 226)
      statusSent   |-> 0,         \* initial status messages sent
      stages       |-> << >>,     \* toolchain subprocesses spawned, in order
      returncode   |-> 0,         \* exit status of the last subprocess
      stderr       |-> << >>,     \* what the last subprocess wrote to stderr
      diag         |-> << >>,     \* error_str of run_ffmpeg's exception
      outSize      |-> 0,         \* size _check_file_size read last
      uploads      |-> << >>,     \* upload calls made, by backend
      uploaded     |-> FALSE,     \* an upload call returned normally
      size         |-> 0,         \* size of the final artifact at upload
      completed    |-> 0,         \* "completed" status edits attempted
      failNotes    |-> 0,         \* failure send_message calls made
      notifyFailed |-> FALSE,     \* the failure send itself raised
      note         |-> << >>,     \* text of the failure message
      err          |-> "none" ]   \* the error process() raised

NewRun(meta) == [NoRun EXCEPT !.meta = meta]

\* Observer of one accepted job; late = enqueue() came after stop() was called.
NewJob == [st |-> "queued", runs |-> 0, outcome |-> "pending", late |-> shutdown]

\* No direct call of _cleanup_files was made yet.
NoClean ==
    [ calls  |-> 0,      \* calls made
      paths  |-> {},     \* the paths they were given
      before |-> {},     \* the file system before the first call
      once   |-> {},     \* the file system after the first call
      failed |-> {},     \* paths whose deletion raised in the last call
      raised |-> {} ]    \* exceptions that left the last call

\* How a finished run is remembered: "ok", "failed" (failure message sent) or
\* "unnotified" (the failure message could not be sent).
Outcome(r) ==
    IF r.err = "none" THEN "ok"
    ELSE IF r.notifyFailed THEN "unnotified" ELSE "failed"

InitWith(E) ==
    /\ max_concurrent \in E.pools
    /\ creds \in E.creds
    /\ q = << >>
    /\ unfinished = 0
    /\ semValue = max_concurrent
    /\ semWaiters = << >>
    /\ shutdown = FALSE
    /\ telethon_client = "none"
    /\ starts = 0
    /\ launched = {}
    /\ wpc = [w \in Workers |-> "none"]
    /\ run = [w \in Workers |-> NoRun]
    /\ stopPc = "idle"
    /\ jobs = << >>
    /\ fs \in E.disk
    /\ startOrder = << >>
    /\ startLog = << >>
    /\ cleaned = NoClean

\* ------------------------------------------------------------ enqueue/start
\* enqueue (lines 120-123): put on an unbounded queue never waits.
Enqueue(u) ==
    /\ Len(jobs) < MaxJobs
    /\ jobs' = Append(jobs, NewJob)
    /\ q' = Append(q, [id |-> Len(jobs) + 1, url |-> u])
    /\ unfinished' = unfinished + 1
    /\ UNCHANGED << max_concurrent, creds, semValue, semWaiters, shutdown,
                    telethon_client, starts, launched, wpc, run, stopPc, fs,
                    startOrder, startLog, cleaned >>

\* Mutant of BackendAfterStart: the client of an unauthorized session is kept.
BackendAfterStartKeepsClient(outcome) ==
    IF outcome = "nocreds" THEN telethon_client ELSE "ok"

\* start() lines 89-104: what self.telethon_client is after the backend set-up.
BackendAfterStart(outcome) ==
    CASE outcome = "nocreds"      -> telethon_client
      [] outcome = "authorized"   -> "ok"
      [] outcome = "unauthorized" -> "none"
      [] outcome = "connectfail"  -> "unconnected"

\* start(): whether line 106 (create_task(self.worker())) is reached.  connect()
\* raising leaves start() before it.
StartLaunches(outcome) == outcome # "connectfail"

\* The ways the backend set-up can go (line 89 tests the credentials).
StartOutcomes ==
    IF creds THEN {"authorized", "unauthorized", "connectfail"} ELSE {"nocreds"}

\* The loop test "while not self._shutdown" (line 131).
LoopTop == IF shutdown THEN "exited" ELSE "get"

\* start (lines 84-106).  The new task tests the loop condition first.
Start(E, outcome) ==
    /\ starts < E.starts
    /\ outcome \in StartOutcomes
    /\ starts' = starts + 1
    /\ startLog' = Append(startLog, outcome)
    /\ telethon_client' = BackendAfterStart(outcome)
    /\ IF StartLaunches(outcome)
       THEN /\ launched' = launched \cup {starts + 1}
            /\ wpc' = [wpc EXCEPT ![starts + 1] = LoopTop]
       ELSE UNCHANGED << launched, wpc >>
    /\ UNCHANGED << max_concurrent, creds, q, unfinished, semValue, semWaiters,
                    shutdown, run, stopPc, jobs, fs, startOrder, cleaned >>

\* ---------------------------------------------------------------- stop
\* disconnect() on the session client, when there is one (lines 114-116).
AfterDisconnect == IF telethon_client = "none" THEN "none" ELSE "disconnected"

\* stop (lines 108-118): sets the flag; q.join() returns at once when nothing
\* is unfinished, otherwise stop() waits.
StopCall ==
    /\ stopPc = "idle"
    /\ shutdown' = TRUE
    /\ IF unfinished = 0
       THEN /\ stopPc' = "returned"
            /\ telethon_client' = AfterDisconnect
       ELSE /\ stopPc' = "joining"
            /\ UNCHANGED telethon_client
    /\ UNCHANGED << max_concurrent, creds, q, unfinished, semValue, semWaiters,
                    starts, launched, wpc, run, jobs, fs, startOrder, startLog,
                    cleaned >>

\* stop: q.join() returns once every accepted item was marked done.
StopJoined ==
    /\ stopPc = "joining"
    /\ unfinished = 0
    /\ stopPc' = "returned"
    /\ telethon_client' = AfterDisconnect
    /\ UNCHANGED << max_concurrent, creds, q, unfinished, semValue, semWaiters,
                    shutdown, starts, launched, wpc, run, jobs, fs, startOrder,
                    startLog, cleaned >>


\* ------------------------------------------------------------ worker loop
\* What a worker step leaves alone.
WorkerFrame ==
    UNCHANGED << max_concurrent, creds, shutdown, telethon_client, starts,
                 launched, stopPc, startLog, cleaned >>

\* Mutant of SemLocked: the slot is taken without looking at the semaphore.
SemNeverLocked == FALSE

\* asyncio.Semaphore.locked(): no free slot, or somebody is already waiting.
SemLocked == semValue = 0 \/ semWaiters # << >>

\* Mutant of NextIndex: the newest item is handed out (a LIFO queue).
NewestIndex(queue) == Len(queue)

\* Queue.get on a non-empty queue: the position of the item handed out.
NextIndex(queue) == 1

\* Mutant of Without: get() leaves the item in the queue.
WithoutNothing(queue, i) == queue

\* The queue without its i-th item.
Without(queue, i) == SubSeq(queue, 1, i - 1) \o SubSeq(queue, i + 1, Len(queue))

\* The waiter Semaphore.release() wakes.
NextWaiter(waiters) == 1

\* Mutant of Released: the slot is not given back.
ReleasedNot(v) == v

\* Semaphore.release() with nobody waiting: one more free slot.
Released(v) == v + 1

\* The elements of a sequence.
Range(seq) == {seq[i] : i \in 1..Len(seq)}

\* A job's run starts: the slot is held and process(meta) is entered.
Entered(js, j) == [js EXCEPT ![j].st = "running", ![j].runs = @ + 1]

\* worker (lines 133, 137): q.get() hands out the oldest item; "async with
\* self.semaphore" takes a slot at once when one is free and otherwise queues
\* the worker behind the earlier waiters.
WorkerGet(w) ==
    /\ wpc[w] = "get"
    /\ q # << >>
    /\ LET i    == NextIndex(q)
           meta == q[i] IN
       /\ q' = Without(q, i)
       /\ run' = [run EXCEPT ![w] = NewRun(meta)]
       /\ IF SemLocked
          THEN /\ semWaiters' = Append(semWaiters, w)
               /\ wpc' = [wpc EXCEPT ![w] = "acquire"]
               /\ jobs' = [jobs EXCEPT ![meta.id].st = "waiting"]
               /\ UNCHANGED << semValue, startOrder >>
          ELSE /\ semValue' = semValue - 1
               /\ wpc' = [wpc EXCEPT ![w] = "run"]
               /\ jobs' = Entered(jobs, meta.id)
               /\ startOrder' = Append(startOrder, meta.id)
               /\ UNCHANGED semWaiters
    /\ UNCHANGED << unfinished, fs >>
    /\ WorkerFrame

\* worker (lines 133-135): the one-second wait for an item ran out; the loop
\* tests the shutdown flag again.
GetTimeout(w) ==
    /\ wpc[w] = "get"
    /\ q = << >>
    /\ wpc' = [wpc EXCEPT ![w] = LoopTop]
    /\ UNCHANGED << q, unfinished, semValue, semWaiters, run, jobs, fs,
                    startOrder >>
    /\ WorkerFrame

\* Where the worker goes after task_done() and the release of the slot.
AfterJob == LoopTop

\* worker (lines 149-150 and the end of "async with"): task_done(), then the
\* slot is released - handed to a waiter when there is one - and the loop
\* condition is tested.  The run's locals are gone.
TaskDone(w) ==
    /\ wpc[w] = "taskdone"
    /\ unfinished' = unfinished - 1
    /\ run' = [run EXCEPT ![w] = NoRun]
    /\ LET j    == run[w].meta.id
           done == [jobs EXCEPT ![j].st = "done",
                                ![j].outcome = Outcome(run[w])] IN
       IF semWaiters # << >>
       THEN LET i == NextWaiter(semWaiters)
                v == semWaiters[i] IN
            /\ semWaiters' = Without(semWaiters, i)
            /\ wpc' = [wpc EXCEPT ![w] = AfterJob, ![v] = "run"]
            /\ jobs' = Entered(done, run[v].meta.id)
            /\ startOrder' = Append(startOrder, run[v].meta.id)
            /\ UNCHANGED semValue
       ELSE /\ semValue' = Released(semValue)
            /\ wpc' = [wpc EXCEPT ![w] = AfterJob]
            /\ jobs' = done
            /\ UNCHANGED << semWaiters, startOrder >>
    /\ UNCHANGED << q, fs >>
    /\ WorkerFrame

\* s[-n:], the last n elements of s (all of s when it is shorter).
LastN(seq, n) == SubSeq(seq, IF Len(seq) > n THEN Len(seq) - n + 1 ELSE 1, Len(seq))

\* run_ffmpeg line 167: error_str = stderr.decode()[-1000:].
ErrorStr(stderr) == LastN(stderr, DiagTail)

\* str(e) of the exception process() raised; run_ffmpeg's carries error_str
\* (line 169).
ExcText(r) ==
    IF r.err = "toolchain" THEN <<"FFmpeg error">> \o r.diag ELSE << r.err >>

\* The text of the failure message (line 145).
NoteText(r) == <<"Error processing lecture">> \o ExcText(r)

\* Mutant of AfterNotify: a failing send is not caught and ends the worker.
AfterNotifyUncaught(delivered) == IF delivered THEN "taskdone" ELSE "exited"

\* Where the worker goes from its except branch, the failure message sent or
\* its send having failed (lines 147-150).
AfterNotify(delivered) == "taskdone"

\* worker (lines 140-148): the except branch sends one failure message; a
\* failure of that send is logged and swallowed.
Notify(w, delivered) ==
    /\ wpc[w] = "notify"
    /\ wpc' = [wpc EXCEPT ![w] = AfterNotify(delivered)]
    /\ run' = [run EXCEPT ![w].failNotes = @ + 1,
                          ![w].notifyFailed = ~delivered,
                          ![w].note = NoteText(run[w])]
    /\ UNCHANGED << q, unfinished, semValue, semWaiters, jobs, fs, startOrder >>
    /\ WorkerFrame

\* ------------------------------------------------------------ process()
\* One step of process() by worker w: new position, new locals, new files.
Step(w, pc, r, f) ==
    /\ wpc' = [wpc EXCEPT ![w] = pc]
    /\ run' = [run EXCEPT ![w] = r]
    /\ fs' = f
    /\ UNCHANGED << q, unfinished, semValue, semWaiters, jobs, startOrder >>
    /\ WorkerFrame

Path(w, k) == <<run[w].meta.id, k>>

\* Where an exception raised before the try block goes: to the worker's
\* except branch, past the finally block of process().
RaiseBeforeTry == "notify"

\* process (lines 221-228): URL validation, then the free-space test.
Validate(w, free) ==
    /\ wpc[w] = "run"
    /\ IF ~UrlValid(run[w].meta.url)
       THEN Step(w, RaiseBeforeTry, [run[w] EXCEPT !.err = "validation"], fs)
       ELSE IF InsufficientSpace(free)
       THEN Step(w, RaiseBeforeTry,
                 [run[w] EXCEPT !.err = "resource", !.free = free], fs)
       ELSE Step(w, "status", [run[w] EXCEPT !.free = free], fs)

\* process (lines 231-234): the initial status message, still before the try.
StatusSend(w, ok) ==
    /\ wpc[w] = "status"
    /\ IF ok
       THEN Step(w, "fetch", [run[w] EXCEPT !.statusSent = @ + 1], fs)
       ELSE Step(w, RaiseBeforeTry,
                 [run[w] EXCEPT !.statusSent = @ + 1, !.err = "transport"], fs)

\* proc.returncode (line 166) of a subprocess with this outcome.
ReturnCode(o) == IF o.kind \in {"exitfail", "partial"} THEN 1 ELSE 0

\* Mutant of RunFfmpeg: the exit status is not looked at.
RunFfmpegIgnoreExit(o) == "ok"

\* run_ffmpeg (lines 152-171): a non-zero exit status is raised as an error.
RunFfmpeg(o) == IF ReturnCode(o) # 0 THEN "toolchain" ELSE "ok"

\* The file the subprocess leaves at its output path p.
StageFiles(f, p, o) ==
    IF o.kind \in {"partial", "file"} THEN WriteFile(f, p) ELSE f

\* A stage of the try block: edit_text, run_ffmpeg, _check_file_size; any
\* error goes to the finally block.  f is the file system as the subprocess
\* finds it (after the sidecar write, for the watermark stage).
Stage(w, name, f, out, next, o) ==
    IF o.kind = "editfail"
    THEN Step(w, "cleanup", [run[w] EXCEPT !.err = "transport"], fs)
    ELSE LET g   == StageFiles(f, Path(w, out), o)
             ran == RunFfmpeg(o)
             res == IF ran # "ok" THEN ran
                    ELSE CheckFileSize(o.kind = "file", o.size)
             r   == [run[w] EXCEPT
                        !.stages = Append(@, name),
                        !.returncode = ReturnCode(o),
                        !.stderr = o.stderr,
                        !.diag = IF ran # "ok" THEN ErrorStr(o.stderr) ELSE @,
                        !.outSize = IF ran = "ok" /\ o.kind = "file"
                                    THEN o.size ELSE @]
         IN IF res = "ok" THEN Step(w, next, r, g)
            ELSE Step(w, "cleanup", [r EXCEPT !.err = res], g)

\* process (lines 245-254): step 1, download.
Fetch(w, o) ==
    /\ wpc[w] = "fetch"
    /\ Stage(w, "fetch", fs, "tmp", "watermark", o)

\* process (lines 257-277): step 2, the sidecar text file is written, then
\* the watermark subprocess runs.
Watermark(w, o) ==
    /\ wpc[w] = "watermark"
    /\ IF o.kind = "writefail"
       THEN Step(w, "cleanup", [run[w] EXCEPT !.err = "io"],
                 WriteFile(fs, Path(w, "txt")))
       ELSE Stage(w, "watermark", WriteFile(fs, Path(w, "txt")),
                  "water", "thumb", o)

\* process (lines 280-298): step 3.  With a thumbnail the cover is muxed into
\* a new final file; without one the watermarked file is renamed to the final
\* path.  The final file is size-checked in both cases.
Thumb(w, thumbExists, o) ==
    /\ wpc[w] = "thumb"
    /\ IF thumbExists
       THEN Stage(w, "thumb", fs, "final", "upload", o)
       ELSE /\ o.kind = "file"
            /\ IF Exists(fs, Path(w, "water"))
               THEN LET g   == Rename(fs, Path(w, "water"), Path(w, "final"))
                        res == CheckFileSize(TRUE, o.size)
                        r   == [run[w] EXCEPT !.outSize = o.size]
                    IN IF res = "ok" THEN Step(w, "upload", r, g)
                       ELSE Step(w, "cleanup", [r EXCEPT !.err = res], g)
               ELSE Step(w, "cleanup", [run[w] EXCEPT !.err = "integrity"], fs)

\* process (line 316): the backend an upload goes through.
Backend == IF telethon_client # "none" THEN "session" ELSE "capped"

\* Whether the transport can accept the upload at all: the session must be
\* connected; the bot-token backend refuses a file above its ceiling.
Deliverable(size) ==
    IF Backend = "session" THEN telethon_client = "ok"
    ELSE size <= CappedCeiling

\* Mutant of UploadCalls: an artifact the capped backend cannot take is not
\* uploaded at all.
UploadCallsPrechecked(size) ==
    IF Backend = "capped" /\ size > CappedCeiling THEN << >> ELSE << Backend >>

\* The upload calls process() makes for an artifact of this size (lines
\* 316-340): one, through the backend in force, whatever the size.
UploadCalls(size) == << Backend >>

\* process (lines 301-340): the "Uploading" edit, the size for the caption
\* (line 306 reads the size of the file line 298 has just checked), then the
\* upload.
Upload(w, size, editOk, sent) ==
    /\ wpc[w] = "upload"
    /\ size = run[w].outSize
    /\ sent => Deliverable(size)
    /\ IF ~editOk
       THEN /\ ~sent
            /\ Step(w, "cleanup", [run[w] EXCEPT !.err = "transport"], fs)
       ELSE LET r == [run[w] EXCEPT !.size = size,
                                    !.uploads = @ \o UploadCalls(size)] IN
            IF sent
            THEN Step(w, "complete", [r EXCEPT !.uploaded = TRUE], fs)
            ELSE Step(w, "cleanup", [r EXCEPT !.err = "delivery"], fs)

\* process (line 342): the status is edited to "completed".
Complete(w, ok) ==
    /\ wpc[w] = "complete"
    /\ IF ok
       THEN Step(w, "cleanup", [run[w] EXCEPT !.completed = @ + 1], fs)
       ELSE Step(w, "cleanup",
                 [run[w] EXCEPT !.completed = @ + 1, !.err = "transport"], fs)

\* Mutant of CleanupPaths: the final file is left in place.
CleanupPathsKeepFinal(j) == PathsOf(j) \ {<<j, "final">>}

\* The paths the finally block hands to _cleanup_files (line 350).
CleanupPaths(j) == PathsOf(j)

\* process (lines 345-350): the finally block; afterwards an error is raised
\* again to the worker, a normal return goes on to task_done().  The unlink
\* calls are taken to succeed.
Cleanup(w) ==
    /\ wpc[w] = "cleanup"
    /\ Step(w, IF run[w].err = "none" THEN "taskdone" ELSE "notify", run[w],
            CleanupFiles(fs, CleanupPaths(run[w].meta.id)))

\* ------------------------------------------------------------ specification
WorkerStep(E, w) ==
    \/ WorkerGet(w)
    \/ GetTimeout(w)
    \/ \E free \in E.frees : Validate(w, free)
    \/ \E ok \in E.transport : StatusSend(w, ok)
    \/ \E o \in E.stage : Fetch(w, o)
    \/ \E o \in E.stage \cup E.sidecar : Watermark(w, o)
    \/ \E t \in E.thumbs, o \in E.stage : Thumb(w, t, o)
    \/ \E size \in E.sizes, ok \in E.transport, sent \in BOOLEAN :
          Upload(w, size, ok, sent)
    \/ \E ok \in E.transport : Complete(w, ok)
    \/ Cleanup(w)
    \/ \E d \in E.transport : Notify(w, d)
    \/ TaskDone(w)

NextWith(E) ==
    \/ \E u \in E.urls : Enqueue(u)
    \/ \E o \in StartOutcomes : Start(E, o)
    \/ StopCall
    \/ StopJoined
    \/ \E w \in Workers : WorkerStep(E, w)

\* The program as bot.py runs it.
Init == InitWith(FullEnv)
Next == NextWith(FullEnv)
Spec == Init /\ [][Next]_vars

\* The pool under several start() calls and pool sizes.
PoolInit == InitWith(PoolEnv)
PoolNext == NextWith(PoolEnv)
PoolSpec == PoolInit /\ [][PoolNext]_vars

\* _cleanup_files called directly on a set of paths, up to MaxCleanups times
\* in a row on the same set.
CleanupCall(P) ==
    /\ cleaned.calls < MaxCleanups
    /\ cleaned.calls > 0 => P = cleaned.paths
    /\ fs' = CleanupFiles(fs, P)
    /\ cleaned' = [ calls  |-> cleaned.calls + 1,
                    paths  |-> P,
                    before |-> IF cleaned.calls = 0 THEN fs ELSE cleaned.before,
                    once   |-> IF cleaned.calls = 0 THEN fs' ELSE cleaned.once,
                    failed |-> CleanupFailures(fs, P),
                    raised |-> CleanupRaised(fs, P) ]
    /\ UNCHANGED << max_concurrent, creds, q, unfinished, semValue, semWaiters,
                    shutdown, telethon_client, starts, launched, wpc, run,
                    stopPc, jobs, startOrder, startLog >>

\* The clean-up step alone, on an output directory holding any of the files
\* of one job.
CleanInit == InitWith(CleanEnv)
CleanNext == \E P \in SUBSET PathsOf(1) : CleanupCall(P)
CleanSpec == CleanInit /\ [][CleanNext]_vars

\* One start() call on pools of every size.
SingleInit == InitWith(SingleEnv)
SingleNext == NextWith(SingleEnv)
SingleSpec == SingleInit /\ [][SingleNext]_vars

\* The pool with failing transport calls.
SlotInit == InitWith(SlotEnv)
SlotNext == NextWith(SlotEnv)
SlotSpec == SlotInit /\ [][SlotNext]_vars

\* Scheduling: the event loop runs every task that can take a step, and a
\* stop() whose join() can return does return.
Fairness ==
    /\ \A w \in Workers : WF_vars(WorkerStep(FullEnv, w))
    /\ WF_vars(StopJoined)

FairSpec == Spec /\ Fairness

\* ------------------------------------------------------------------ claims
JobIds == 1..Len(jobs)
Active == {w \in Workers : run[w].meta.id # 0}

\* process() has returned or raised to the worker.
Returned(w) == wpc[w] \in {"notify", "taskdone"}

\* The worker holds a slot: it is between the acquire and the release.
HoldsSlot(w) ==
    wpc[w] \in {"run", "status", "fetch", "watermark", "thumb", "upload",
                "complete", "cleanup", "notify", "taskdone"}

\* enqueue() was called after stop().
LateEnqueue == \E j \in JobIds : jobs[j].late

\* C1: once stop() is called on a pool with a live worker, whatever is
\* pending or in flight, stop() eventually returns with every accepted job
\* marked done (no enqueue following the stop() call).
C1_StopReturns ==
    (stopPc = "joining" /\ \E w \in launched : wpc[w] # "exited")
        ~> ((stopPc = "returned" /\ unfinished = 0) \/ LateEnqueue)

\* C2: when process() has returned or raised, on whatever path, none of the
\* job's four derived paths exists (the deletions of cleanup succeeding); the
\* same holds of every finished job.
C2_NoLeftovers ==
    /\ \A w \in Active : Returned(w) => PathsOf(run[w].meta.id) \cap fs = {}
    /\ \A j \in JobIds : jobs[j].st = "done" => PathsOf(j) \cap fs = {}

\* C2 witness: a run that had created all its files and failed at the upload
\* has returned to the worker.
C2_Witness ==
    \E w \in Active :
        /\ wpc[w] = "notify"
        /\ run[w].err = "delivery"
        /\ Len(run[w].stages) = 3

\* C3: at most max_concurrent pipeline runs hold a slot at any time.
C3_AtMostN == Cardinality({w \in Workers : HoldsSlot(w)}) <= max_concurrent

\* C3 witness: the pool is full and a further worker, holding a job, waits.
C3_Witness ==
    /\ \E w \in Workers : wpc[w] = "acquire"
    /\ Cardinality({w \in Workers : HoldsSlot(w)}) = max_concurrent

\* C4: after a job failed (its failure message sent or not), every job still
\* queued behind it on a started pool is dequeued and run, unless stop() is
\* called first.
QueuedBehindFailure(j) ==
    IF j \in JobIds
    THEN /\ jobs[j].st = "queued"
         /\ \E k \in 1..(j - 1) : jobs[k].outcome \in {"failed", "unnotified"}
    ELSE FALSE

WasRun(j) == IF j \in JobIds THEN jobs[j].runs = 1 ELSE FALSE

C4_LaterJobsRun ==
    \A j \in 1..MaxJobs :
        (QueuedBehindFailure(j) /\ launched # {}) ~> (shutdown \/ WasRun(j))

\* C4 witness: a job failed without its failure message getting through and
\* a job enqueued after it is running.
C4_Witness ==
    \E j \in JobIds, k \in JobIds :
        /\ k < j
        /\ jobs[k].outcome = "unnotified"
        /\ jobs[j].st = "running"

\* C5: runs start in enqueue order (job ids are given in enqueue order).
C5_FifoStart == \A i \in 1..Len(startOrder) : startOrder[i] = i

\* C5 witness: two workers hold a job each, both runs started.
C5_Witness ==
    /\ Len(startOrder) >= 2
    /\ Cardinality({w \in Workers : HoldsSlot(w)}) >= 2

\* C6: a finished run has had exactly one terminal notification, the
\* "completed" edit or one failure message.
C6_OneTerminalNotification ==
    \A w \in Active :
        wpc[w] = "taskdone" => run[w].completed + run[w].failNotes = 1

\* A URL that fails validation: empty, no http scheme, or no .m3u8 marker.
InvalidUrl(u) == u = << >> \/ ~StartsWithHttp(u) \/ ~ContainsM3u8(u)

\* C7: for a job whose URL fails validation no subprocess is spawned, no
\* status message is sent, no file is created, no upload is made, and exactly
\* one failure notification is sent.
C7_InvalidUrlRejected ==
    \A w \in Active :
        InvalidUrl(run[w].meta.url) =>
            /\ run[w].stages = << >>
            /\ run[w].statusSent = 0
            /\ run[w].uploads = << >>
            /\ PathsOf(run[w].meta.id) \cap fs = {}
            /\ run[w].failNotes <= 1
            /\ wpc[w] = "taskdone" => run[w].failNotes = 1 /\ run[w].completed = 0

\* C7 witness: the run of a job with a non-empty invalid URL has ended.
C7_Witness ==
    \E w \in Active :
        /\ wpc[w] = "taskdone"
        /\ InvalidUrl(run[w].meta.url)
        /\ run[w].meta.url # << >>

\* The case of C8: the final artifact is above the capped backend's ceiling
\* and there is no session backend.
OverCeilingNoSession(w) ==
    run[w].size > CappedCeiling /\ telethon_client = "none"

C9_StartLaunchesWorker == Cardinality(launched) = starts

\* C10: once the shutdown flag is set nothing is taken from the queue.
C10_NoDequeueAfterStop == [][shutdown => Len(q') >= Len(q)]_vars

\* C11: a run whose three stages and upload succeeded ends with exactly one
\* upload call, exactly one success notification, no failure notification and
\* none of the job's files left.
C11_SuccessfulRun ==
    \A w \in Active :
        run[w].uploaded /\ wpc[w] = "taskdone" =>
            /\ Len(run[w].uploads) = 1
            /\ run[w].completed = 1
            /\ run[w].failNotes = 0
            /\ PathsOf(run[w].meta.id) \cap fs = {}

\* C12: free slots + workers holding a slot = max_concurrent in every state:
\* a run starts only with a slot taken and the slot comes back after the run,
\* however the run and its failure message went.
C12_SlotsBalance ==
    semValue + Cardinality({w \in Workers : HoldsSlot(w)}) = max_concurrent

\* C12 witness: a job ended without its failure message getting through,
\* nothing is running and every slot is free again.
C12_Witness ==
    /\ \E j \in JobIds : jobs[j].outcome = "unnotified"
    /\ \A w \in Workers : ~HoldsSlot(w)
    /\ semValue = max_concurrent

\* The last min(Len(stderr), DiagTail) elements of the tool's stderr end the text.
CarriesTail(text, stderr) ==
    LET n == IF Len(stderr) < DiagTail THEN Len(stderr) ELSE DiagTail IN
        /\ n > 0
        /\ Len(text) >= n
        /\ \A i \in 1..n : text[Len(text) - n + i] = stderr[Len(stderr) - n + i]

\* C13: once a subprocess of a run has exited non-zero, the run spawns no
\* further subprocess and makes no upload call; it ends with exactly one
\* failure message, whose text ends with the tail of the tool's stderr, and
\* when process() has returned no .water or final file of the job exists.
C13_ToolchainFailure ==
    [][\A w \in Workers :
          (run[w].returncode # 0 /\ run'[w].meta = run[w].meta) =>
              /\ run'[w].stages = run[w].stages
              /\ run'[w].uploads = << >>
              /\ run'[w].failNotes <= 1
              /\ wpc'[w] \in {"notify", "taskdone"} =>
                     {Path(w, "water"), Path(w, "final")} \cap fs' = {}
              /\ wpc'[w] = "taskdone" =>
                     /\ run'[w].failNotes = 1
                     /\ CarriesTail(run'[w].note, run'[w].stderr)]_vars

\* C13 witness: the watermark subprocess exited non-zero with more stderr
\* than the tail kept, and the run has ended.
C13_Witness ==
    \E w \in Active :
        /\ wpc[w] = "taskdone"
        /\ run[w].returncode # 0
        /\ run[w].stages = <<"fetch", "watermark">>
        /\ Len(run[w].stderr) > DiagTail

\* The workers that hold job j.
HoldersOf(j) == {w \in Workers : run[w].meta.id = j}

\* C14: every accepted job is taken from the queue at most once and run at
\* most once: it is in the queue at most once, only while it has not been
\* taken, it is held by at most one worker, and its runs number at most one,
\* whatever failed before.
C14_AtMostOnce ==
    \A j \in JobIds :
        /\ jobs[j].runs <= 1
        /\ Cardinality({i \in 1..Len(q) : q[i].id = j}) =
               (IF jobs[j].st = "queued" THEN 1 ELSE 0)
        /\ Cardinality(HoldersOf(j)) <= 1
        /\ jobs[j].st = "done" => HoldersOf(j) = {}

\* C14 witness: a job failed, a later job has been run to its end as well and
\* the queue is empty with the worker still polling.
C14_Witness ==
    /\ q = << >>
    /\ \E w \in launched : wpc[w] = "get"
    /\ \E j \in JobIds, k \in JobIds :
          /\ j < k
          /\ jobs[j].outcome = "failed" /\ jobs[j].runs = 1
          /\ jobs[k].st = "done"

\* The backend start() resolved: the session backend exactly when credentials
\* were configured and the authorization at start() succeeded.
ResolvedBackend ==
    IF creds /\ \E i \in 1..Len(startLog) : startLog[i] = "authorized"
    THEN "session" ELSE "capped"

\* C15: every upload call of every job goes through the backend resolved at
\* start() and a job makes at most one upload call, so no job uploads
\* through both backends and no two jobs through different ones.
C15_BackendFixed ==
    \A w \in Active :
        /\ Len(run[w].uploads) <= 1
        /\ \A i \in 1..Len(run[w].uploads) : run[w].uploads[i] = ResolvedBackend

\* C15 witness: a job after the first has made its upload call through the
\* session backend.
C15_Witness ==
    \E w \in Active : run[w].meta.id >= 2 /\ run[w].uploads = << "session" >>

\* C16: after _cleanup_files was called twice in a row on the same paths the
\* file system is as the first call left it, and the second call had no
\* deletion fail and raised nothing.
C16_CleanupIdempotent ==
    cleaned.calls >= 2 =>
        /\ fs = cleaned.once
        /\ cleaned.failed = {}
        /\ cleaned.raised = {}

\* C16 witness: two calls were made, the first deleted a file and a file
\* outside the given paths is still there.
C16_Witness ==
    /\ cleaned.calls = 2
    /\ cleaned.before \cap cleaned.paths # {}
    /\ cleaned.before \ cleaned.paths # {}
    /\ fs = cleaned.before \ cleaned.paths

\* The stages in their order.
StageOrder == <<"fetch", "watermark", "thumb">>

\* The previous stage exited zero and left a non-empty file at path kind k.
StageDone(w, k) ==
    /\ run[w].returncode = 0
    /\ Exists(fs, Path(w, k))
    /\ run[w].outSize > 0

\* C17: the subprocesses of a run are spawned in the order fetch, watermark,
\* thumbnail; the watermark step is reached only after fetch, the thumbnail
\* (or rename) step only after watermark, and the upload only after both and
\* the final file, each time with the previous stage having exited zero and
\* its output existing with non-zero size.
C17_StageOrder ==
    \A w \in Active :
        /\ run[w].stages = SubSeq(StageOrder, 1, Len(run[w].stages))
        /\ wpc[w] = "watermark" =>
               run[w].stages = <<"fetch">> /\ StageDone(w, "tmp")
        /\ wpc[w] = "thumb" =>
               run[w].stages = <<"fetch", "watermark">> /\ StageDone(w, "water")
        /\ wpc[w] = "upload" =>
               Len(run[w].stages) >= 2 /\ StageDone(w, "final")
        /\ run[w].uploads # << >> =>
               /\ Len(run[w].stages) >= 2
               /\ run[w].returncode = 0
               /\ run[w].outSize > 0

\* C17 witness: the three subprocesses have run and the upload is next.
C17_Witness ==
    \E w \in Active : wpc[w] = "upload" /\ run[w].stages = StageOrder

\* The free-space test of the run was reached.
Measured(w) == run[w].free > 0

\* The run was rejected for lack of space before anything was done.
RejectedForSpace(w) ==
    /\ run[w].err = "resource"
    /\ run[w].stages = << >>
    /\ run[w].statusSent = 0
    /\ run[w].uploads = << >>
    /\ PathsOf(run[w].meta.id) \cap fs = {}

\* C18 as stated: a job is rejected whenever the free space measured does
\* not exceed 1.5 x the maximum size, the equal case included, and proceeds
\* only when it exceeds it.
C18_RejectedUnlessAbove ==
    \A w \in Active :
        Measured(w) =>
            IF 2 * run[w].free <= 3 * max_file_size_bytes
            THEN RejectedForSpace(w)
            ELSE run[w].err # "resource"

\* C18 amended: a job is rejected, before any subprocess or file, whenever
\* the free space measured is below 1.5 x the maximum size; with exactly
\* 1.5 x the maximum or more it proceeds.
C18_RejectedBelow ==
    \A w \in Active :
        Measured(w) =>
            IF 2 * run[w].free < 3 * max_file_size_bytes
            THEN RejectedForSpace(w)
            ELSE run[w].err # "resource"

\* C18 witness: a job rejected for lack of space has ended with its failure
\* message.
C18_Witness ==
    \E w \in Active :
        /\ wpc[w] = "taskdone"
        /\ Measured(w)
        /\ RejectedForSpace(w)
        /\ run[w].failNotes = 1

\* C19: once stop() has returned no worker holds or waits for a slot with a
\* job: no run is in progress and none starts.
C19_IdleAfterStop ==
    stopPc = "returned" =>
        \A w \in Workers : ~HoldsSlot(w) /\ wpc[w] # "acquire"

\* C20: no failure message is sent for a run whose upload call returned
\* normally.
C20_NoFailureAfterUpload ==
    \A w \in Active : run[w].uploaded => run[w].failNotes = 0

====
